---- MODULE Spec2Model ----
(***************************************************************************)
(* The application catalog and the launch-history ledger of yeet           *)
(* (src/src/desktop.rs, src/src/history.rs) as a state machine.            *)
(*                                                                         *)
(* The ledger lives in a small POSIX file system shared by several         *)
(* launcher processes.  A file is a sequence of one-character strings; a   *)
(* directory entry is absent, a regular file (an inode number) or a        *)
(* symbolic link.  Every system call of record_launch, load_history and    *)
(* trim_history is one step, so that steps of different processes          *)
(* interleave between any two system calls.                                *)
(*                                                                         *)
(* discover_apps builds the catalog one descriptor and one custom app at   *)
(* a time and sorts it; launch_app hands a command to the operating        *)
(* system and, when that succeeds, calls record_launch.                    *)
(***************************************************************************)
EXTENDS Naturals, Sequences, FiniteSets, TLC

VARIABLES dir, data, pc, todo, loc, pre, adv,
          config, found, apps, step, spawned

\* The file system and the processes that use the ledger.
hvars == <<dir, data, pc, todo, loc, pre, adv>>

\* The configuration, the descriptors found, the catalog being built and the
\* commands handed to the operating system.
dvars == <<config, found, apps, step, spawned>>

vars == <<dir, data, pc, todo, loc, pre, adv, config, found, apps, step, spawned>>

\* The ledger on its own: no configuration is read, no catalog built and
\* nothing launched.
NoCatalog ==
    /\ config = [exclude |-> {}, favorites |-> {}, custom |-> <<>>]
    /\ found = <<>>
    /\ apps = <<>>
    /\ step = 0
    /\ spawned = <<>>

(***************************************************************************)
(* Characters and text                                                     *)
(***************************************************************************)
TAB == "\t"
LF == "\n"
CR == "\r"

Digits == <<"0", "1", "2", "3", "4", "5", "6", "7", "8", "9">>

IsDigit(c) == \E i \in 1..10 : Digits[i] = c

DigitVal(c) == (CHOOSE i \in 1..10 : Digits[i] = c) - 1

\* u64::MAX, scaled down to a width that keeps the inputs enumerable: a digit
\* string whose value exceeds it fails to parse, as one above 2^64-1 does.
U64Max == 255

Min(a, b) == IF a < b THEN a ELSE b

\* The result of a failed str::parse::<u64>() (Err(_)); Ok(n) is n itself.
ParseErr == U64Max + 1

RECURSIVE ParseDigits(_, _)
\* The digit loop of u64::from_str: checked_mul(10) then checked_add(digit).
ParseDigits(s, acc) ==
    IF Len(s) = 0 THEN acc
    ELSE IF ~IsDigit(Head(s)) THEN ParseErr
    ELSE IF acc * 10 + DigitVal(Head(s)) > U64Max THEN ParseErr
    ELSE ParseDigits(Tail(s), acc * 10 + DigitVal(Head(s)))

\* ts_str.parse::<u64>(): an optional leading '+', then one or more digits.
parse_u64(s) ==
    IF Len(s) = 0 THEN ParseErr
    ELSE IF Head(s) = "+"
         THEN (IF Len(s) = 1 THEN ParseErr ELSE ParseDigits(Tail(s), 0))
         ELSE ParseDigits(s, 0)

RECURSIVE FormatU64(_)
\* Display for u64 ("{}"): decimal, no sign, no leading zeros.
FormatU64(n) ==
    IF n < 10 THEN <<Digits[n + 1]>>
    ELSE Append(FormatU64(n \div 10), Digits[(n % 10) + 1])

RECURSIVE FindChar(_, _, _)
\* Index of the first c in s at or after position i, 0 if there is none.
FindChar(s, c, i) ==
    IF i > Len(s) THEN 0
    ELSE IF s[i] = c THEN i
    ELSE FindChar(s, c, i + 1)

RECURSIVE FindLastChar(_, _, _)
\* Index of the last c in s at or before position i, 0 if there is none.
FindLastChar(s, c, i) ==
    IF i < 1 THEN 0
    ELSE IF s[i] = c THEN i
    ELSE FindLastChar(s, c, i - 1)

\* A split at the last tab (str::rsplit_once).
rsplit_once(line) ==
    LET i == FindLastChar(line, TAB, Len(line))
    IN  IF i = 0 THEN [some |-> FALSE, left |-> <<>>, right |-> <<>>]
        ELSE [some |-> TRUE,
              left |-> SubSeq(line, 1, i - 1),
              right |-> SubSeq(line, i + 1, Len(line))]

\* line.split_once('\t'): the text before and after the FIRST tab.
split_once(line) ==
    LET i == FindChar(line, TAB, 1)
    IN  IF i = 0 THEN [some |-> FALSE, left |-> <<>>, right |-> <<>>]
        ELSE [some |-> TRUE,
              left |-> SubSeq(line, 1, i - 1),
              right |-> SubSeq(line, i + 1, Len(line))]

\* Strip one trailing carriage return.
StripCR(line) ==
    IF Len(line) > 0 /\ line[Len(line)] = CR
    THEN SubSeq(line, 1, Len(line) - 1)
    ELSE line

RECURSIVE Lines(_)
\* str::lines / BufRead::lines: split at "\n"; a line that ended in "\n"
\* also loses one "\r" before it; a final piece without "\n" is a line as
\* it stands, and an empty final piece is no line.
Lines(content) ==
    LET i == FindChar(content, LF, 1)
    IN  IF Len(content) = 0 THEN <<>>
        ELSE IF i = 0 THEN <<content>>
        ELSE <<StripCR(SubSeq(content, 1, i - 1))>>
             \o Lines(SubSeq(content, i + 1, Len(content)))

(***************************************************************************)
(* History events                                                          *)
(***************************************************************************)
\* The filter_map closure with the timestamp defaulting to 0 on a failed parse.
ParseLineOrZero(line) ==
    LET sp == split_once(line)
        n == parse_u64(sp.left)
    IN  IF ~sp.some THEN <<>>
        ELSE <<[ts |-> IF n = ParseErr THEN 0 ELSE n, name |-> sp.right]>>

\* The closure split at the last tab instead of the first.
ParseLineLastTab(line) ==
    LET sp == rsplit_once(line)
    IN  IF ~sp.some \/ parse_u64(sp.left) = ParseErr THEN <<>>
        ELSE <<[ts |-> parse_u64(sp.left), name |-> sp.right]>>

\* One line of the ledger as zero or one event: split_once('\t') and
\* parse::<u64>() of the first part; anything else is skipped.
ParseLine(line) ==
    LET sp == split_once(line)
    IN  IF ~sp.some \/ parse_u64(sp.left) = ParseErr THEN <<>>
        ELSE <<[ts |-> parse_u64(sp.left), name |-> sp.right]>>

RECURSIVE ParseEntries(_)
\* content.lines().filter_map(..).collect(): the events in file order.
ParseEntries(ls) ==
    IF Len(ls) = 0 THEN <<>>
    ELSE ParseLine(Head(ls)) \o ParseEntries(Tail(ls))

\* The map update that lets the last line for a name win.
UpdateEntryLast(h, e) ==
    [n \in DOMAIN h \cup {e.name} |-> IF n = e.name THEN e.ts ELSE h[n]]

\* history.entry(name).or_insert(0); if ts > *entry { *entry = ts }
UpdateEntry(h, e) ==
    LET old == IF e.name \in DOMAIN h THEN h[e.name] ELSE 0
    IN  [n \in DOMAIN h \cup {e.name} |->
            IF n = e.name THEN (IF e.ts > old THEN e.ts ELSE old) ELSE h[n]]

EmptyMap == [n \in {} |-> 0]

RECURSIVE LoadFold(_, _)
\* The for loop of load_history over the lines read.
LoadFold(ls, h) ==
    IF Len(ls) = 0 THEN h
    ELSE LET ev == ParseLine(Head(ls))
         IN  LoadFold(Tail(ls), IF Len(ev) = 0 THEN h ELSE UpdateEntry(h, ev[1]))

RECURSIVE InsertDesc(_, _)
\* Stable insertion for descending order: e goes after every element whose
\* timestamp is greater than or equal to its own.
InsertDesc(s, e) ==
    IF Len(s) = 0 THEN <<e>>
    ELSE IF Head(s).ts >= e.ts THEN <<Head(s)>> \o InsertDesc(Tail(s), e)
    ELSE <<e>> \o s

RECURSIVE InsertAsc(_, _)
InsertAsc(s, e) ==
    IF Len(s) = 0 THEN <<e>>
    ELSE IF Head(s).ts <= e.ts THEN <<Head(s)>> \o InsertAsc(Tail(s), e)
    ELSE <<e>> \o s

RECURSIVE SortDescFrom(_, _)
SortDescFrom(s, acc) ==
    IF Len(s) = 0 THEN acc ELSE SortDescFrom(Tail(s), InsertDesc(acc, Head(s)))

RECURSIVE SortAscFrom(_, _)
SortAscFrom(s, acc) ==
    IF Len(s) = 0 THEN acc ELSE SortAscFrom(Tail(s), InsertAsc(acc, Head(s)))

\* entries.sort_by(|a, b| b.0.cmp(&a.0)): stable, newest first.
sort_desc(s) == SortDescFrom(s, <<>>)

\* entries.sort_by(|a, b| a.0.cmp(&b.0)): stable, oldest first.
sort_asc(s) == SortAscFrom(s, <<>>)

\* A truncate that keeps the LAST k elements.
truncate_tail(s, k) == SubSeq(s, Len(s) - Min(k, Len(s)) + 1, Len(s))

\* Vec::truncate(k): the first k elements, or all if there are fewer.
truncate(s, k) == SubSeq(s, 1, Min(k, Len(s)))

\* Lines 90-92 of trim_history: the events a compaction writes back.
KeptEntries(entries, max_lines) ==
    sort_asc(truncate(sort_desc(entries), max_lines))

\* The line written with a space for the tab.
LineFragmentsSpace(ts, name) ==
    <<FormatU64(ts), <<" ">>>> \o (IF Len(name) = 0 THEN <<>> ELSE <<name>>)
    \o <<(<<LF>>)>>

\* writeln!(file, "{}\t{}", ts, name) on an unbuffered File: io::Write::write_fmt
\* hands every piece of the format to write_all on its own, so the line
\* reaches the file as one write(2) per non-empty piece.
LineFragments(ts, name) ==
    <<FormatU64(ts), <<TAB>>>> \o (IF Len(name) = 0 THEN <<>> ELSE <<name>>)
    \o <<(<<LF>>)>>

RECURSIVE EntriesFragments(_)
\* The for loop of trim_history over the kept entries.
EntriesFragments(entries) ==
    IF Len(entries) = 0 THEN <<>>
    ELSE LineFragments(Head(entries).ts, Head(entries).name)
         \o EntriesFragments(Tail(entries))

(***************************************************************************)
(* The file system                                                         *)
(***************************************************************************)
\* The launcher processes that share the ledger.
Procs == {1, 2}

\* MAX_HISTORY_LINES (200 in the source), scaled down with the ledger.
MAX_HISTORY_LINES == 2

\* The factor of line 36 (100 bytes per line in the source), scaled down to
\* the length of the model's lines.
BYTES_PER_LINE == 4

\* The capacity of one read(2) of BufReader / read_to_string, scaled down.
ReadChunk == 8

\* history_path()
HistoryPath == <<"history", 0>>

\* A file outside the ledger directory that a symbolic link may point to.
VictimPath == <<"victim", 0>>

\* A temporary name without the process id in it.
temp_path_fixed(p) == <<"tmp", 1>>

\* parent.join(format!(".history.{}.{}.tmp", process::id(), nanos)): one name
\* per process.
temp_path(p) == <<"tmp", p>>

Paths == {HistoryPath, VictimPath} \cup {temp_path(p) : p \in Procs}

Absent == [kind |-> "absent", ino |-> 0, to |-> HistoryPath]

RegularFile(i) == [kind |-> "file", ino |-> i, to |-> HistoryPath]

SymLink(t) == [kind |-> "symlink", ino |-> 0, to |-> t]

\* The inode a path names once a symbolic link is followed; 0 for ENOENT.
Resolve(path) ==
    IF dir[path].kind = "file" THEN dir[path].ino
    ELSE IF dir[path].kind = "symlink" /\ dir[dir[path].to].kind = "file"
         THEN dir[dir[path].to].ino
    ELSE 0

\* The bytes of the file a path names ("" when it names none).
ContentAt(path) == IF Resolve(path) = 0 THEN <<>> ELSE data[Resolve(path)]

\* ensure_not_symlink: symlink_metadata (lstat) of the path itself; NotFound
\* is accepted.
ensure_not_symlink(path) == dir[path].kind # "symlink"

\* An open for append without O_NOFOLLOW: a link is followed.
open_history_following(path) ==
    IF Resolve(path) # 0
    THEN [ok |-> TRUE, fd |-> Resolve(path), dir |-> dir, data |-> data]
    ELSE IF dir[path].kind = "symlink"
    THEN [ok |-> TRUE, fd |-> Len(data) + 1,
          dir |-> [dir EXCEPT ![dir[path].to] = RegularFile(Len(data) + 1)],
          data |-> Append(data, <<>>)]
    ELSE [ok |-> TRUE, fd |-> Len(data) + 1,
          dir |-> [dir EXCEPT ![path] = RegularFile(Len(data) + 1)],
          data |-> Append(data, <<>>)]

\* open_history_for_append: O_CREAT | O_APPEND | O_NOFOLLOW, mode 0600.  A
\* symbolic link at the path fails with ELOOP; an absent path is created.
open_history_for_append(path) ==
    IF dir[path].kind = "symlink"
    THEN [ok |-> FALSE, fd |-> 0, dir |-> dir, data |-> data]
    ELSE IF dir[path].kind = "file"
    THEN [ok |-> TRUE, fd |-> dir[path].ino, dir |-> dir, data |-> data]
    ELSE [ok |-> TRUE, fd |-> Len(data) + 1,
          dir |-> [dir EXCEPT ![path] = RegularFile(Len(data) + 1)],
          data |-> Append(data, <<>>)]

\* The rewrite done on the ledger itself (File::create(&path): O_CREAT |
\* O_TRUNC), with no temporary file.
create_history_in_place(p) ==
    IF Resolve(HistoryPath) = 0
    THEN [ok |-> FALSE, path |-> HistoryPath, fd |-> 0, dir |-> dir, data |-> data]
    ELSE [ok |-> TRUE, path |-> HistoryPath, fd |-> Resolve(HistoryPath),
          dir |-> dir,
          data |-> [data EXCEPT ![Resolve(HistoryPath)] = <<>>]]

\* The temporary file opened without create_new (O_CREAT | O_TRUNC): a file
\* already at the name is emptied and written over.
create_temp_truncating(p) ==
    IF dir[temp_path(p)].kind = "file"
    THEN [ok |-> TRUE, path |-> temp_path(p), fd |-> dir[temp_path(p)].ino,
          dir |-> dir,
          data |-> [data EXCEPT ![dir[temp_path(p)].ino] = <<>>]]
    ELSE IF dir[temp_path(p)].kind = "symlink"
    THEN [ok |-> FALSE, path |-> temp_path(p), fd |-> 0, dir |-> dir, data |-> data]
    ELSE [ok |-> TRUE, path |-> temp_path(p), fd |-> Len(data) + 1,
          dir |-> [dir EXCEPT ![temp_path(p)] = RegularFile(Len(data) + 1)],
          data |-> Append(data, <<>>)]

\* create_temp_history_file: O_WRONLY | O_CREAT | O_EXCL | O_NOFOLLOW, mode
\* 0600, on the temporary name; anything already at that name fails it.
create_temp_history_file(p) ==
    IF dir[temp_path(p)].kind # "absent"
    THEN [ok |-> FALSE, path |-> temp_path(p), fd |-> 0, dir |-> dir, data |-> data]
    ELSE [ok |-> TRUE, path |-> temp_path(p), fd |-> Len(data) + 1,
          dir |-> [dir EXCEPT ![temp_path(p)] = RegularFile(Len(data) + 1)],
          data |-> Append(data, <<>>)]

\* fs::rename(from, to): the entry at `to` is replaced atomically, whatever
\* it was (a link is replaced, not followed).
rename(from, to) ==
    IF from = to THEN dir
    ELSE [dir EXCEPT ![to] = dir[from], ![from] = Absent]

\* The size test with >= for >.
NeedsTrimAtLeast(len) == len >= MAX_HISTORY_LINES * BYTES_PER_LINE

\* The size test of line 36.
NeedsTrim(len) == len > MAX_HISTORY_LINES * BYTES_PER_LINE

\* The early return of line 86.
WithinLimit(n, max_lines) == n <= max_lines

(***************************************************************************)
(* Processes                                                               *)
(***************************************************************************)
InitLoc ==
    [op |-> "none", ts |-> 0, name |-> <<>>, max_lines |-> 0, fd |-> 0,
     frags |-> <<>>, result |-> "none", buf |-> <<>>, hist |-> EmptyMap,
     opened |-> FALSE, tmp |-> HistoryPath, trim |-> "none",
     trimPre |-> <<>>, sawLink |-> FALSE, written |-> 0]

\* The operation returns to its caller.
Return(p) ==
    /\ pc' = [pc EXCEPT ![p] = "idle"]
    /\ todo' = [todo EXCEPT ![p] = Tail(todo[p])]

(***************************************************************************)
(* record_launch                                                           *)
(***************************************************************************)
\* Lines 17-28: the clock is read, the path computed, create_dir_all
\* succeeds (the directory exists) and ensure_not_symlink inspects the path.
\* A symbolic link fails the closure; result is Err and nothing follows.
RecordCheck(p) ==
    /\ pc[p] = "idle"
    /\ todo[p] # <<>>
    /\ Head(todo[p]).op = "record"
    /\ LET l == [InitLoc EXCEPT !.op = "record", !.ts = Head(todo[p]).now,
                                !.name = Head(todo[p]).name,
                                !.sawLink = (dir[HistoryPath].kind = "symlink")]
       IN  IF ensure_not_symlink(HistoryPath)
           THEN /\ loc' = [loc EXCEPT ![p] = l]
                /\ pc' = [pc EXCEPT ![p] = "rec_open"]
                /\ UNCHANGED todo
           ELSE /\ loc' = [loc EXCEPT ![p] = [l EXCEPT !.result = "err"]]
                /\ Return(p)
    /\ UNCHANGED <<dir, data, pre, adv>>
    /\ UNCHANGED dvars

\* Line 29: open_history_for_append; on success the pieces of line 30 are
\* pending.
RecordOpen(p) ==
    /\ pc[p] = "rec_open"
    /\ LET o == open_history_for_append(HistoryPath)
       IN  IF o.ok
           THEN /\ dir' = o.dir
                /\ data' = o.data
                /\ loc' = [loc EXCEPT ![p].fd = o.fd,
                                      ![p].frags = LineFragments(loc[p].ts, loc[p].name)]
                /\ pc' = [pc EXCEPT ![p] = "rec_write"]
                /\ UNCHANGED todo
           ELSE /\ loc' = [loc EXCEPT ![p].result = "err"]
                /\ Return(p)
                /\ UNCHANGED <<dir, data>>
    /\ UNCHANGED <<pre, adv>>
    /\ UNCHANGED dvars

\* Line 30: one write(2) in append mode: the piece lands at the end of the
\* file as it is at that moment.  After the last piece the closure is Ok and
\* the file is closed.
RecordWrite(p) ==
    /\ pc[p] = "rec_write"
    /\ data' = [data EXCEPT ![loc[p].fd] = @ \o Head(loc[p].frags)]
    /\ IF Len(loc[p].frags) = 1
       THEN /\ loc' = [loc EXCEPT ![p].frags = <<>>, ![p].fd = 0,
                                  ![p].result = "ok",
                                  ![p].written = @ + 1]
            /\ pc' = [pc EXCEPT ![p] = "rec_stat"]
       ELSE /\ loc' = [loc EXCEPT ![p].frags = Tail(@), ![p].written = @ + 1]
            /\ UNCHANGED pc
    /\ UNCHANGED <<dir, todo, pre, adv>>
    /\ UNCHANGED dvars

\* Lines 34-39: fs::metadata(&path) (which follows a link) and the size
\* test; a failed metadata or a small file ends record_launch.
RecordStat(p) ==
    /\ pc[p] = "rec_stat"
    /\ IF Resolve(HistoryPath) # 0 /\ NeedsTrim(Len(ContentAt(HistoryPath)))
       THEN /\ loc' = [loc EXCEPT ![p].max_lines = MAX_HISTORY_LINES,
                                  ![p].trimPre = ContentAt(HistoryPath)]
            /\ pc' = [pc EXCEPT ![p] = "trim_check"]
            /\ UNCHANGED todo
       ELSE /\ Return(p)
            /\ UNCHANGED loc
    /\ UNCHANGED <<dir, data, pre, adv>>
    /\ UNCHANGED dvars

(***************************************************************************)
(* load_history                                                            *)
(***************************************************************************)
\* Lines 44-48: File::open(&path); an error returns the empty map.  (The
\* locals of the call before stay readable in loc: timestamp, name, result.)
LoadOpen(p) ==
    /\ pc[p] = "idle"
    /\ todo[p] # <<>>
    /\ Head(todo[p]).op = "load"
    /\ IF Resolve(HistoryPath) = 0
       THEN /\ loc' = [loc EXCEPT ![p].op = "load", ![p].opened = FALSE,
                                  ![p].buf = <<>>, ![p].hist = EmptyMap]
            /\ Return(p)
       ELSE /\ loc' = [loc EXCEPT ![p].op = "load", ![p].opened = TRUE,
                                  ![p].buf = <<>>, ![p].hist = EmptyMap,
                                  ![p].fd = Resolve(HistoryPath)]
            /\ pc' = [pc EXCEPT ![p] = "load_read"]
            /\ UNCHANGED todo
    /\ UNCHANGED <<dir, data, pre, adv>>
    /\ UNCHANGED dvars

\* One read(2) at the descriptor's offset: up to ReadChunk bytes of the file
\* as it is now, none at or past its end.
ReadBytes(p) ==
    IF Len(data[loc[p].fd]) > Len(loc[p].buf)
    THEN SubSeq(data[loc[p].fd], Len(loc[p].buf) + 1,
                Min(Len(loc[p].buf) + ReadChunk, Len(data[loc[p].fd])))
    ELSE <<>>

\* Lines 50-68: the reader fills its buffer until read returns 0, then the
\* lines read are folded into the map.
LoadRead(p) ==
    /\ pc[p] = "load_read"
    /\ IF ReadBytes(p) # <<>>
       THEN /\ loc' = [loc EXCEPT ![p].buf = @ \o ReadBytes(p)]
            /\ UNCHANGED <<pc, todo>>
       ELSE /\ loc' = [loc EXCEPT ![p].hist = LoadFold(Lines(loc[p].buf), EmptyMap),
                                  ![p].fd = 0]
            /\ Return(p)
    /\ UNCHANGED <<dir, data, pre, adv>>
    /\ UNCHANGED dvars

(***************************************************************************)
(* trim_history                                                            *)
(***************************************************************************)
\* trim_history(max_lines) called on its own.
TrimCall(p) ==
    /\ pc[p] = "idle"
    /\ todo[p] # <<>>
    /\ Head(todo[p]).op = "trim"
    /\ loc' = [loc EXCEPT ![p] = [InitLoc EXCEPT !.op = "trim",
                                       !.max_lines = Head(todo[p]).max_lines,
                                       !.trimPre = ContentAt(HistoryPath)]]
    /\ pc' = [pc EXCEPT ![p] = "trim_check"]
    /\ UNCHANGED <<dir, data, todo, pre, adv>>
    /\ UNCHANGED dvars

\* Line 75: ensure_not_symlink; an error ends the closure.
TrimCheck(p) ==
    /\ pc[p] = "trim_check"
    /\ IF ensure_not_symlink(HistoryPath)
       THEN /\ loc' = [loc EXCEPT ![p].buf = <<>>]
            /\ pc' = [pc EXCEPT ![p] = "trim_open"]
            /\ UNCHANGED todo
       ELSE /\ loc' = [loc EXCEPT ![p].trim = "failed_check"]
            /\ Return(p)
    /\ UNCHANGED <<dir, data, pre, adv>>
    /\ UNCHANGED dvars

\* Line 76, first half: read_to_string opens the path (following a link);
\* an absent file ends the closure.
TrimOpen(p) ==
    /\ pc[p] = "trim_open"
    /\ IF Resolve(HistoryPath) = 0
       THEN /\ loc' = [loc EXCEPT ![p].trim = "failed_read"]
            /\ Return(p)
       ELSE /\ loc' = [loc EXCEPT ![p].fd = Resolve(HistoryPath)]
            /\ pc' = [pc EXCEPT ![p] = "trim_read"]
            /\ UNCHANGED todo
    /\ UNCHANGED <<dir, data, pre, adv>>
    /\ UNCHANGED dvars

\* Lines 76-92: read to the end of the file, parse the events; at most
\* max_lines of them ends the compaction with nothing written, otherwise the
\* kept events are chosen.
TrimRead(p) ==
    /\ pc[p] = "trim_read"
    /\ IF ReadBytes(p) # <<>>
       THEN /\ loc' = [loc EXCEPT ![p].buf = @ \o ReadBytes(p)]
            /\ UNCHANGED <<pc, todo>>
       ELSE LET entries == ParseEntries(Lines(loc[p].buf))
            IN  IF WithinLimit(Len(entries), loc[p].max_lines)
                THEN /\ loc' = [loc EXCEPT ![p].trim = "noop", ![p].fd = 0]
                     /\ Return(p)
                ELSE /\ loc' = [loc EXCEPT ![p].fd = 0,
                                   ![p].frags = EntriesFragments(
                                       KeptEntries(entries, loc[p].max_lines))]
                     /\ pc' = [pc EXCEPT ![p] = "trim_create"]
                     /\ UNCHANGED todo
    /\ UNCHANGED <<dir, data, pre, adv>>
    /\ UNCHANGED dvars

\* Line 94: create_temp_history_file; an error ends the closure.
TrimCreate(p) ==
    /\ pc[p] = "trim_create"
    /\ LET c == create_temp_history_file(p)
       IN  IF c.ok
           THEN /\ dir' = c.dir
                /\ data' = c.data
                /\ loc' = [loc EXCEPT ![p].fd = c.fd, ![p].tmp = c.path]
                /\ pc' = [pc EXCEPT ![p] =
                            IF loc[p].frags = <<>> THEN "trim_rename" ELSE "trim_write"]
                /\ UNCHANGED todo
           ELSE /\ loc' = [loc EXCEPT ![p].trim = "failed_create", ![p].frags = <<>>]
                /\ Return(p)
                /\ UNCHANGED <<dir, data>>
    /\ UNCHANGED <<pre, adv>>
    /\ UNCHANGED dvars

\* Lines 95-98: one write(2) per piece of every kept line, then the file is
\* closed.
TrimWrite(p) ==
    /\ pc[p] = "trim_write"
    /\ data' = [data EXCEPT ![loc[p].fd] = @ \o Head(loc[p].frags)]
    /\ IF Len(loc[p].frags) = 1
       THEN /\ loc' = [loc EXCEPT ![p].frags = <<>>, ![p].fd = 0]
            /\ pc' = [pc EXCEPT ![p] = "trim_rename"]
       ELSE /\ loc' = [loc EXCEPT ![p].frags = Tail(@)]
            /\ UNCHANGED pc
    /\ UNCHANGED <<dir, todo, pre, adv>>
    /\ UNCHANGED dvars

\* Lines 99-103: the temporary file is renamed over the ledger path; a
\* rename whose source is gone fails, and remove_file then finds nothing.
TrimRename(p) ==
    /\ pc[p] = "trim_rename"
    /\ IF dir[loc[p].tmp].kind = "absent"
       THEN /\ loc' = [loc EXCEPT ![p].trim = "failed_rename"]
            /\ UNCHANGED dir
       ELSE /\ dir' = rename(loc[p].tmp, HistoryPath)
            /\ loc' = [loc EXCEPT ![p].trim = "renamed"]
    /\ Return(p)
    /\ UNCHANGED <<data, pre, adv>>
    /\ UNCHANGED dvars

(***************************************************************************)
(* Failing system calls inside trim_history                                *)
(***************************************************************************)
\* Line 111: symlink_metadata fails with an error other than NotFound.
TrimCheckFails(p) ==
    /\ pc[p] = "trim_check"
    /\ loc' = [loc EXCEPT ![p].trim = "failed_check"]
    /\ Return(p)
    /\ UNCHANGED <<dir, data, pre, adv>>
    /\ UNCHANGED dvars

\* Line 76: read_to_string fails (open or read error, or bytes that are not
\* UTF-8).
TrimReadFails(p) ==
    /\ pc[p] \in {"trim_open", "trim_read"}
    /\ loc' = [loc EXCEPT ![p].trim = "failed_read", ![p].fd = 0]
    /\ Return(p)
    /\ UNCHANGED <<dir, data, pre, adv>>
    /\ UNCHANGED dvars

\* Line 94: the open of the temporary file fails (EACCES, ENOSPC, ...).
TrimCreateFails(p) ==
    /\ pc[p] = "trim_create"
    /\ loc' = [loc EXCEPT ![p].trim = "failed_create", ![p].frags = <<>>]
    /\ Return(p)
    /\ UNCHANGED <<dir, data, pre, adv>>
    /\ UNCHANGED dvars

\* Line 96: a write to the temporary file fails; `?` leaves the closure with
\* the file dropped (closed) and still in the directory.
TrimWriteFails(p) ==
    /\ pc[p] = "trim_write"
    /\ loc' = [loc EXCEPT ![p].trim = "failed_write", ![p].frags = <<>>, ![p].fd = 0]
    /\ Return(p)
    /\ UNCHANGED <<dir, data, pre, adv>>
    /\ UNCHANGED dvars

\* Lines 99-102: the rename fails; map_err removes the temporary file.
TrimRenameFails(p) ==
    /\ pc[p] = "trim_rename"
    /\ dir' = [dir EXCEPT ![loc[p].tmp] =
                  IF loc[p].tmp = HistoryPath THEN @ ELSE Absent]
    /\ loc' = [loc EXCEPT ![p].trim = "failed_rename"]
    /\ Return(p)
    /\ UNCHANGED <<data, pre, adv>>
    /\ UNCHANGED dvars

(***************************************************************************)
(* Another user of the file system                                         *)
(***************************************************************************)
\* The ledger path is replaced by a symbolic link to a file elsewhere.
SwapToSymlink ==
    /\ adv > 0
    /\ adv' = adv - 1
    /\ dir' = [dir EXCEPT ![HistoryPath] = SymLink(VictimPath)]
    /\ UNCHANGED <<data, pc, todo, loc, pre>>
    /\ UNCHANGED dvars

(***************************************************************************)
(* Initial states                                                          *)
(***************************************************************************)
\* The most lines an initial ledger holds.
MaxLines == 3

\* The contents of the file the symbolic link points to.
VictimContent == <<"v", LF>>

Line(ts, name) == ts \o <<TAB>> \o name

RECURSIVE JoinLines(_)
\* Every line followed by a newline.
JoinLines(ls) ==
    IF Len(ls) = 0 THEN <<>> ELSE Head(ls) \o <<LF>> \o JoinLines(Tail(ls))

\* The files of at most n lines taken from a catalog.
Contents(catalog, n) ==
    {JoinLines(f) : f \in UNION {[1..k -> catalog] : k \in 0..n}}

\* The same files, and each of them without its final newline.
ContentsAnyEnd(catalog, n) ==
    Contents(catalog, n)
    \cup {SubSeq(c, 1, Len(c) - 1) : c \in Contents(catalog, n) \ {<<>>}}

\* Well-formed lines, with equal timestamps among them.
PlainLines ==
    {Line(<<"5">>, <<"a">>), Line(<<"7">>, <<"b">>), Line(<<"5">>, <<"c">>)}

\* Well-formed lines, one of a name that ends in carriage returns.
PlainOrCRLines == PlainLines \cup {Line(<<"7">>, <<"a", CR, CR>>)}

\* Lines for a compaction: equal timestamps, a signed and a zero timestamp,
\* a malformed line, and a name that ends in carriage returns.
TrimLines ==
    {Line(<<"5">>, <<"a">>), Line(<<"7">>, <<"b">>), Line(<<"5">>, <<"c">>),
     Line(<<"0">>, <<"a">>), Line(<<"x">>, <<"b">>), Line(<<"+", "5">>, <<"d">>),
     Line(<<"7">>, <<"a", CR, CR>>)}

\* Lines before a new launch: the same name with a later timestamp, equal
\* timestamps, an old event, and a name that ends in carriage returns.
PriorLines ==
    {Line(<<"5">>, <<"a">>), Line(<<"7">>, <<"b">>), Line(<<"7">>, <<"a">>),
     Line(<<"0">>, <<"c">>), Line(<<"7">>, <<"a", CR, CR>>)}

\* The app names recorded: plain, empty, with a tab, with a newline, ending
\* in a carriage return.
Names == {<<"a">>, <<>>, <<"a", TAB, "b">>, <<"a", LF, "b">>, <<"a", CR>>}

\* Lines of every shape the parser meets.
MixedLines ==
    {Line(<<"5">>, <<"a">>), Line(<<"7">>, <<"b">>), Line(<<"7">>, <<"a">>),
     Line(<<"0">>, <<"a">>), Line(<<"x">>, <<"b">>), <<>>, <<"a">>,
     Line(<<"5">>, <<"a", TAB, "b">>), Line(<<"+", "5">>, <<"c">>),
     Line(<<>>, <<"a">>), Line(<<"5">>, <<>>), Line(<<"9", "9", "9">>, <<"a">>),
     Line(<<"0", "7">>, <<"c", CR>>), Line(<<"+">>, <<"a">>),
     Line(<<"2", "5", "5">>, <<"b">>)}

\* The state after construction: the ledger path holds `entry`, inode 1 has
\* `content`, the two processes have their calls to make.
StartLedger(entry, content, t1, t2, swaps) ==
    /\ dir = [q \in Paths |-> IF q = HistoryPath THEN entry
                              ELSE IF q = VictimPath THEN RegularFile(2)
                              ELSE Absent]
    /\ data = <<content, VictimContent>>
    /\ pc = [p \in Procs |-> "idle"]
    /\ todo = <<t1, t2>>
    /\ loc = [p \in Procs |-> InitLoc]
    /\ pre = content
    /\ adv = swaps

\* The same with the catalog left out.
Start(entry, content, t1, t2, swaps) ==
    /\ StartLedger(entry, content, t1, t2, swaps)
    /\ NoCatalog

RecordOp(name, now) == [op |-> "record", name |-> name, now |-> now, max_lines |-> 0]

LoadOp == [op |-> "load", name |-> <<>>, now |-> 0, max_lines |-> 0]

TrimOp(m) == [op |-> "trim", name |-> <<>>, now |-> 0, max_lines |-> m]

\* The clock readings of the model.
Times == {5, 7}

\* The largest max_lines a direct call passes.
MaxLimit == 2

\* The values of max_lines a direct call passes.
Limits == 0..MaxLimit

(***************************************************************************)
(* The application catalog (src/src/desktop.rs)                            *)
(***************************************************************************)
\* Option<T>.
None == [some |-> FALSE, v |-> <<>>]

Some(x) == [some |-> TRUE, v |-> x]

\* The code point of a character of the model's alphabet.
CodePoint(c) ==
    CASE c = " " -> 32
      [] c = "%" -> 37
      [] c = "-" -> 45
      [] c = "A" -> 65
      [] c = "B" -> 66
      [] c = "F" -> 70
      [] c = "a" -> 97
      [] c = "b" -> 98
      [] OTHER   -> 127

\* char::to_lowercase.
LowerChar(c) ==
    CASE c = "A" -> "a"
      [] c = "B" -> "b"
      [] c = "F" -> "f"
      [] OTHER   -> c

\* str::to_lowercase.
to_lowercase(s) == [i \in 1..Len(s) |-> LowerChar(s[i])]

RECURSIVE cmp(_, _)
\* Ord for String: byte by byte, a proper prefix first.
cmp(a, b) ==
    IF a = <<>> /\ b = <<>> THEN "Equal"
    ELSE IF a = <<>> THEN "Less"
    ELSE IF b = <<>> THEN "Greater"
    ELSE IF CodePoint(Head(a)) < CodePoint(Head(b)) THEN "Less"
    ELSE IF CodePoint(Head(a)) > CodePoint(Head(b)) THEN "Greater"
    ELSE cmp(Tail(a), Tail(b))

\* The comparison without the lower-casing.
cmp_by_case(a, b, favorites) ==
    IF a.name \in favorites /\ b.name \notin favorites THEN "Less"
    ELSE IF a.name \notin favorites /\ b.name \in favorites THEN "Greater"
    ELSE cmp(a.name, b.name)

\* The closure of lines 102-110: a favorite before any other app, otherwise
\* by lower-cased name.
cmp_apps(a, b, favorites) ==
    IF a.name \in favorites /\ b.name \notin favorites THEN "Less"
    ELSE IF a.name \notin favorites /\ b.name \in favorites THEN "Greater"
    ELSE cmp(to_lowercase(a.name), to_lowercase(b.name))

RECURSIVE InsertApp(_, _, _)
\* e goes after every element that is not greater than it.
InsertApp(s, e, favorites) ==
    IF s = <<>> THEN <<e>>
    ELSE IF cmp_apps(Head(s), e, favorites) = "Greater" THEN <<e>> \o s
    ELSE <<Head(s)>> \o InsertApp(Tail(s), e, favorites)

RECURSIVE SortAppsFrom(_, _, _)
SortAppsFrom(s, acc, favorites) ==
    IF s = <<>> THEN acc
    ELSE SortAppsFrom(Tail(s), InsertApp(acc, Head(s), favorites), favorites)

\* apps.sort_by(...): a stable sort.
sort_apps(s, favorites) == SortAppsFrom(s, <<>>, favorites)

RECURSIVE SplitWhitespace(_, _)
\* The words of a command line, cur being the word read so far.
SplitWhitespace(s, cur) ==
    IF s = <<>> THEN (IF cur = <<>> THEN <<>> ELSE <<cur>>)
    ELSE IF Head(s) = " "
         THEN (IF cur = <<>> THEN <<>> ELSE <<cur>>) \o SplitWhitespace(Tail(s), <<>>)
    ELSE SplitWhitespace(Tail(s), Append(cur, Head(s)))

\* A word that stands for files or URLs to open; a launcher has none to
\* pass, and the word yields no argument.
IsFieldCode(word) == word = <<"%", "F">>

\* entry.parse_exec() of the freedesktop_desktop_entry crate: an entry
\* without an Exec key is an error, otherwise the words of the command
\* without its field codes.
parse_exec(entry) ==
    IF ~entry.exec.some THEN [ok |-> FALSE, args |-> <<>>]
    ELSE [ok |-> TRUE,
          args |-> SelectSeq(SplitWhitespace(entry.exec.v, <<>>),
                             LAMBDA w : ~IsFieldCode(w))]

RECURSIVE join(_, _)
\* [String]::join(sep).
join(args, sep) ==
    IF args = <<>> THEN <<>>
    ELSE IF Len(args) = 1 THEN Head(args)
    ELSE Head(args) \o sep \o join(Tail(args), sep)

\* LaunchCommand.
Direct(args) == [kind |-> "Direct", args |-> args, exec |-> <<>>]

Shell(exec) == [kind |-> "Shell", args |-> <<>>, exec |-> exec]

\* A custom app turned into a Direct command by splitting its exec string.
from_custom_split(custom, k) ==
    [name |-> custom.name, exec |-> custom.exec, icon |-> custom.icon,
     description |-> None, keywords |-> custom.keywords, terminal |-> FALSE,
     launch |-> Direct(SplitWhitespace(custom.exec, <<>>)),
     origin |-> [custom |-> TRUE, index |-> k]]

\* App::from_custom.  (origin is not a field of App: it remembers which
\* record of the input the App was built from.)
from_custom(custom, k) ==
    [name |-> custom.name, exec |-> custom.exec, icon |-> custom.icon,
     description |-> None, keywords |-> custom.keywords, terminal |-> FALSE,
     launch |-> Shell(custom.exec),
     origin |-> [custom |-> TRUE, index |-> k]]

\* The App of lines 78-89.
from_entry(entry, exec_args, k) ==
    [name |-> entry.name.v, exec |-> join(exec_args, <<" ">>),
     icon |-> entry.icon, description |-> entry.comment,
     keywords |-> entry.keywords, terminal |-> entry.terminal,
     launch |-> Direct(exec_args),
     origin |-> [custom |-> FALSE, index |-> k]]

\* The test of lines 69-72 without the emptiness guard.
accepts_exec_any(r) == r.ok

\* Lines 69-72: Ok(args) if !args.is_empty().
accepts_exec(r) == r.ok /\ r.args # <<>>

\* An exclusion test that lets a favorite through.
is_excluded_unless_favorite(name) ==
    name \in config.exclude /\ name \notin config.favorites

\* Line 74: exclude_set.contains(name).
is_excluded(name) == name \in config.exclude

\* The positions of discover_apps: step counts the loop iterations begun,
\* first over the descriptors, then over the custom apps; the sort follows.
Scanning == step <= Len(found)

Appending == step > Len(found) /\ step <= Len(found) + Len(config.custom)

Sorting == step = Len(found) + Len(config.custom) + 1

Discovered == step = Len(found) + Len(config.custom) + 2

\* Lines 60-93: one descriptor of the iteration.
DiscoverEntry ==
    /\ Scanning
    /\ LET entry == found[step]
           r == parse_exec(entry)
       IN  IF \/ ~entry.parsed
              \/ entry.no_display \/ entry.hidden
              \/ ~entry.name.some
              \/ ~accepts_exec(r)
              \/ is_excluded(entry.name.v)
           THEN UNCHANGED apps
           ELSE apps' = Append(apps, from_entry(entry, r.args, step))
    /\ step' = step + 1
    /\ UNCHANGED <<config, found, spawned>>
    /\ UNCHANGED hvars

\* A custom app that goes through the exclusion test.
PushCustomFiltered ==
    /\ Appending
    /\ LET k == step - Len(found)
       IN  IF is_excluded(config.custom[k].name)
           THEN UNCHANGED apps
           ELSE apps' = Append(apps, from_custom(config.custom[k], k))
    /\ step' = step + 1
    /\ UNCHANGED <<config, found, spawned>>
    /\ UNCHANGED hvars

\* Lines 95-97: one custom app.
PushCustom ==
    /\ Appending
    /\ LET k == step - Len(found)
       IN  apps' = Append(apps, from_custom(config.custom[k], k))
    /\ step' = step + 1
    /\ UNCHANGED <<config, found, spawned>>
    /\ UNCHANGED hvars

\* Lines 99-112: the sort, and the catalog is returned.
SortApps ==
    /\ Sorting
    /\ apps' = sort_apps(apps, config.favorites)
    /\ step' = step + 1
    /\ UNCHANGED <<config, found, spawned>>
    /\ UNCHANGED hvars

discover_apps == DiscoverEntry \/ PushCustom \/ SortApps

\* What DesktopEntry::from_path and the accessors of lines 61-87 give for a
\* descriptor file.
Descriptor(name, exec, terminal) ==
    [parsed |-> TRUE, no_display |-> FALSE, hidden |-> FALSE, name |-> name,
     exec |-> exec, icon |-> None, comment |-> None, keywords |-> <<>>,
     terminal |-> terminal]

\* The descriptor files of the search directories: plain ones, one with a
\* field code, one run in a terminal, one whose command is a field code
\* alone, one of blanks, and ones without a name, without a command, not to
\* be shown, hidden or unreadable.
Descriptors ==
    {Descriptor(Some(<<"a">>), Some(<<"a">>), FALSE),
     Descriptor(Some(<<"A">>), Some(<<"b", " ", " ", "a">>), FALSE),
     Descriptor(Some(<<"B">>), Some(<<"a", " ", "%", "F", " ", "b">>), TRUE),
     Descriptor(Some(<<"b">>), Some(<<"%", "F">>), FALSE),
     Descriptor(Some(<<"b">>), Some(<<" ">>), FALSE),
     Descriptor(Some(<<"a", "b">>), None, FALSE),
     Descriptor(None, Some(<<"a">>), FALSE),
     [Descriptor(Some(<<"b">>), Some(<<"b">>), FALSE) EXCEPT !.no_display = TRUE],
     [Descriptor(Some(<<"b">>), Some(<<"b">>), FALSE) EXCEPT !.hidden = TRUE],
     [Descriptor(None, None, FALSE) EXCEPT !.parsed = FALSE]}

\* A CustomApp of the configuration.
CustomApp(name, exec) ==
    [name |-> name, exec |-> exec, icon |-> None, keywords |-> <<>>]

CustomApps ==
    {CustomApp(<<"a">>, <<"a", " ", "%", "F", " ", " ", "b">>),
     CustomApp(<<"B">>, <<>>)}

\* The most descriptors found and the most custom apps configured.
MaxFound == 2

MaxCustom == 1

\* The sequences of at most n elements of a set.
SeqsUpTo(S, n) == UNION {[1..k -> S] : k \in 0..n}

ExcludeSets == {{}, {<<"a">>}, {<<"B">>, <<"b">>}}

FavoriteSets == {{}, {<<"B">>}, {<<"a">>, <<"b">>}}

\* The terminal of the configuration.
Terminal == <<"t">>

\* discover_apps is about to run on a configuration and the descriptors
\* found.
StartCatalog(c, f) ==
    /\ config = c
    /\ found = f
    /\ apps = <<>>
    /\ step = 1
    /\ spawned = <<>>

(***************************************************************************)
(* Launching (src/src/desktop.rs)                                          *)
(***************************************************************************)
\* bool::then_some.
then_some(flag, x) == IF flag THEN Some(x) ELSE None

\* spawn_direct without the test of line 146: the command is built from
\* whatever argv there is.
spawn_direct_unchecked(args, terminal) ==
    IF terminal.some
    THEN [attempt |-> TRUE, err |-> "none", cmd |-> <<terminal.v, <<"-", "e">>>> \o args]
    ELSE [attempt |-> TRUE, err |-> "none", cmd |-> args]

\* A spawn_direct that hands the joined argv to a shell.
spawn_direct_via_shell(args, terminal) ==
    IF args = <<>>
    THEN [attempt |-> FALSE, err |-> "InvalidInput", cmd |-> <<>>]
    ELSE IF terminal.some
    THEN [attempt |-> TRUE, err |-> "none",
          cmd |-> <<terminal.v, <<"-", "e">>, <<"s", "h">>, <<"-", "c">>,
                    join(args, <<" ">>)>>]
    ELSE [attempt |-> TRUE, err |-> "none",
          cmd |-> <<<<"s", "h">>, <<"-", "c">>, join(args, <<" ">>)>>]

\* A spawn_shell that never wraps the shell in the terminal.
spawn_shell_unwrapped(exec, terminal) ==
    [attempt |-> TRUE, err |-> "none",
     cmd |-> <<<<"s", "h">>, <<"-", "c">>, exec>>]

\* spawn_direct up to the spawn: the error of lines 146-151, or the command
\* line of lines 153-161 (the program first).
spawn_direct(args, terminal) ==
    IF args = <<>>
    THEN [attempt |-> FALSE, err |-> "InvalidInput", cmd |-> <<>>]
    ELSE IF terminal.some
    THEN [attempt |-> TRUE, err |-> "none", cmd |-> <<terminal.v, <<"-", "e">>>> \o args]
    ELSE [attempt |-> TRUE, err |-> "none", cmd |-> args]

\* spawn_shell up to the spawn: the command line of lines 170-178.
spawn_shell(exec, terminal) ==
    IF terminal.some
    THEN [attempt |-> TRUE, err |-> "none",
          cmd |-> <<terminal.v, <<"-", "e">>, <<"s", "h">>, <<"-", "c">>, exec>>]
    ELSE [attempt |-> TRUE, err |-> "none",
          cmd |-> <<<<"s", "h">>, <<"-", "c">>, exec>>]

\* What the operating system was asked to run, and how the call ended:
\* Command::spawn succeeds or fails as the system decides.
\* by, name, flag (the terminal flag of the app), launch and terminal say
\* which call it was.
Spawned(p, by, name, flag, launch, terminal, c, ok) ==
    [proc |-> p, by |-> by, name |-> name, flag |-> flag, launch |-> launch,
     terminal |-> terminal, attempt |-> c.attempt, cmd |-> c.cmd,
     err |-> IF ~c.attempt THEN c.err ELSE IF ok THEN "none" ELSE "spawn"]

\* launch_app(app, terminal) on an app of the catalog.  terminal is a
\* public field of App: in_terminal says that the caller has set it on the
\* app it passes.
LaunchOp(terminal, now, in_terminal) ==
    [op |-> "launch", name |-> <<>>, now |-> now, max_lines |-> 0,
     terminal |-> terminal, in_terminal |-> in_terminal]

SpawnDirectOp(args, terminal) ==
    [op |-> "spawn_direct", name |-> <<>>, now |-> 0, max_lines |-> 0,
     args |-> args, terminal |-> terminal]

\* A launch_app that records the launch whatever the spawn returned.
LaunchAlwaysRecords(p) ==
    /\ pc[p] = "idle"
    /\ todo[p] # <<>>
    /\ Head(todo[p]).op = "launch"
    /\ Discovered
    /\ \E i \in 1..Len(apps), ok \in BOOLEAN :
          LET app == IF Head(todo[p]).in_terminal
                     THEN [apps[i] EXCEPT !.terminal = TRUE]
                     ELSE apps[i]
              t == then_some(app.terminal, Head(todo[p]).terminal)
              c == IF app.launch.kind = "Direct"
                   THEN spawn_direct(app.launch.args, t)
                   ELSE spawn_shell(app.launch.exec, t)
          IN  /\ spawned' = Append(spawned, Spawned(p, "launch_app", app.name, app.terminal, app.launch, t, c, ok))
              /\ todo' = [todo EXCEPT ![p] =
                             <<RecordOp(app.name, Head(todo[p]).now)>> \o Tail(@)]
              /\ UNCHANGED pc
    /\ UNCHANGED <<dir, data, loc, pre, adv, config, found, apps, step>>

\* launch_app(app, terminal), lines 133-143, on an app of the catalog: the
\* command is spawned; Ok calls record_launch(&app.name), Err is printed.
LaunchApp(p) ==
    /\ pc[p] = "idle"
    /\ todo[p] # <<>>
    /\ Head(todo[p]).op = "launch"
    /\ Discovered
    /\ \E i \in 1..Len(apps), ok \in BOOLEAN :
          LET app == IF Head(todo[p]).in_terminal
                     THEN [apps[i] EXCEPT !.terminal = TRUE]
                     ELSE apps[i]
              t == then_some(app.terminal, Head(todo[p]).terminal)
              c == IF app.launch.kind = "Direct"
                   THEN spawn_direct(app.launch.args, t)
                   ELSE spawn_shell(app.launch.exec, t)
          IN  /\ spawned' = Append(spawned, Spawned(p, "launch_app", app.name, app.terminal, app.launch, t, c, ok))
              /\ IF c.attempt /\ ok
                 THEN /\ todo' = [todo EXCEPT ![p] =
                             <<RecordOp(app.name, Head(todo[p]).now)>> \o Tail(@)]
                      /\ UNCHANGED pc
                 ELSE Return(p)
    /\ UNCHANGED <<dir, data, loc, pre, adv, config, found, apps, step>>

\* spawn_direct called on its own, as its unit test calls it.
SpawnDirectCall(p) ==
    /\ pc[p] = "idle"
    /\ todo[p] # <<>>
    /\ Head(todo[p]).op = "spawn_direct"
    /\ \E ok \in BOOLEAN :
          spawned' = Append(spawned,
              Spawned(p, "spawn_direct", <<>>, Head(todo[p]).terminal.some,
                      Direct(Head(todo[p]).args),
                      Head(todo[p]).terminal,
                      spawn_direct(Head(todo[p]).args, Head(todo[p]).terminal), ok))
    /\ Return(p)
    /\ UNCHANGED <<dir, data, loc, pre, adv, config, found, apps, step>>

Record(p) == RecordCheck(p) \/ RecordOpen(p) \/ RecordWrite(p) \/ RecordStat(p)

Load(p) == LoadOpen(p) \/ LoadRead(p)

Trim(p) ==
    TrimCheck(p) \/ TrimOpen(p) \/ TrimRead(p) \/ TrimCreate(p) \/ TrimWrite(p)
    \/ TrimRename(p)

TrimFault(p) ==
    TrimCheckFails(p) \/ TrimReadFails(p) \/ TrimCreateFails(p)
    \/ TrimWriteFails(p) \/ TrimRenameFails(p)

\* The outcomes of a compaction that failed, by the step that failed.
TrimFailures ==
    {"failed_check", "failed_read", "failed_create", "failed_write", "failed_rename"}

\* Everything has returned.
AllDone == \A p \in Procs : pc[p] = "idle" /\ todo[p] = <<>>

(***************************************************************************)
(* Specifications                                                          *)
(***************************************************************************)
\* One process loads while another compacts.
InitLoadTrim ==
    \E c \in Contents(PlainLines, MaxLines), m \in Limits :
        Start(RegularFile(1), c, <<LoadOp>>, <<TrimOp(m)>>, 0)

NextLoadTrim == \E p \in Procs : Load(p) \/ TrimCall(p) \/ Trim(p)

SpecLoadTrim == InitLoadTrim /\ [][NextLoadTrim]_vars

\* Two processes record a launch each.
InitRecord2 ==
    \E c \in Contents({Line(<<"7">>, <<"c">>)}, 1), t1 \in Times :
        \/ Start(RegularFile(1), c, <<RecordOp(<<"a">>, t1)>>, <<RecordOp(<<"b">>, 5)>>, 0)
        \/ /\ c = <<>>
           /\ Start(Absent, c, <<RecordOp(<<"a">>, t1)>>, <<RecordOp(<<"b">>, 5)>>, 0)

NextRecord2 == \E p \in Procs : Record(p) \/ Trim(p)

SpecRecord2 == InitRecord2 /\ [][NextRecord2]_vars

\* One process records a launch (and compacts when the ledger has grown)
\* while the ledger path may be replaced by a symbolic link at any moment.
InitSymlink ==
    \E c \in Contents(PlainLines, MaxLines - 1), t \in Times :
        \/ Start(RegularFile(1), c, <<RecordOp(<<"a">>, t)>>, <<>>, 1)
        \/ /\ c = <<>>
           /\ \/ Start(Absent, c, <<RecordOp(<<"a">>, t)>>, <<>>, 1)
              \/ Start(SymLink(VictimPath), c, <<RecordOp(<<"a">>, t)>>, <<>>, 0)

NextSymlink == SwapToSymlink \/ \E p \in Procs : Record(p) \/ Trim(p)

SpecSymlink == InitSymlink /\ [][NextSymlink]_vars

\* Two processes compact the same ledger.
InitTrim2 ==
    \E c \in Contents(PlainOrCRLines, MaxLines), m \in Limits :
        Start(RegularFile(1), c, <<TrimOp(m)>>, <<TrimOp(m)>>, 0)

NextTrim2 == \E p \in Procs : TrimCall(p) \/ Trim(p)

SpecTrim2 == InitTrim2 /\ [][NextTrim2]_vars

\* One process records a launch or compacts, and any system call of the
\* compaction may fail.
InitFault ==
    \E c \in Contents(PlainLines, MaxLines), t \in Times, m \in Limits :
        \/ Start(RegularFile(1), c, <<RecordOp(<<"a">>, t)>>, <<>>, 0)
        \/ Start(RegularFile(1), c, <<TrimOp(m)>>, <<>>, 0)
        \/ /\ c = <<>>
           /\ \/ Start(SymLink(VictimPath), c, <<TrimOp(m)>>, <<>>, 0)
              \/ Start(Absent, c, <<TrimOp(m)>>, <<>>, 0)

NextFault == \E p \in Procs : Record(p) \/ TrimCall(p) \/ Trim(p) \/ TrimFault(p)

SpecFault == InitFault /\ [][NextFault]_vars

\* One process compacts twice in a row.
InitTrimSeq ==
    \E c \in Contents(TrimLines, MaxLines), m \in Limits :
        Start(RegularFile(1), c, <<TrimOp(m), TrimOp(m)>>, <<>>, 0)

NextTrimSeq == \E p \in Procs : TrimCall(p) \/ Trim(p)

SpecTrimSeq == InitTrimSeq /\ [][NextTrimSeq]_vars

\* One process loads a ledger of any content, or none.
InitLoad ==
    \E c \in ContentsAnyEnd(MixedLines, MaxLines - 1) :
        \/ Start(RegularFile(1), c, <<LoadOp>>, <<>>, 0)
        \/ c = <<>> /\ Start(Absent, c, <<LoadOp>>, <<>>, 0)

NextLoad == \E p \in Procs : Load(p)

SpecLoad == InitLoad /\ [][NextLoad]_vars

\* One process records a launch and loads the ledger at once.
InitRoundTrip ==
    \E c \in ContentsAnyEnd(PriorLines, MaxLines), n \in Names, t \in Times :
        \/ Start(RegularFile(1), c, <<RecordOp(n, t), LoadOp>>, <<>>, 0)
        \/ c = <<>> /\ Start(Absent, c, <<RecordOp(n, t), LoadOp>>, <<>>, 0)

NextRoundTrip == \E p \in Procs : Record(p) \/ Trim(p) \/ Load(p)

SpecRoundTrip == InitRoundTrip /\ [][NextRoundTrip]_vars

\* One process records a launch while another compacts.
InitRecordTrim ==
    \E c \in Contents(PlainLines, MaxLines - 1), m \in Limits :
        Start(RegularFile(1), c, <<RecordOp(<<"d">>, 7)>>, <<TrimOp(m)>>, 0)

NextRecordTrim == \E p \in Procs : Record(p) \/ TrimCall(p) \/ Trim(p)

SpecRecordTrim == InitRecordTrim /\ [][NextRecordTrim]_vars

\* What a file left at a temporary name holds.
StaleContent == <<"x", LF>>

\* The inode of the file left at the temporary name of process p.
StaleInode(p) == 2 + p

\* Two processes compact while files are already at the temporary names of
\* the processes in S.
InitStaleTemp ==
    \E c \in Contents(PlainLines, MaxLines - 1), m \in Limits, S \in SUBSET Procs :
        /\ dir = [q \in Paths |->
                     IF q = HistoryPath THEN RegularFile(1)
                     ELSE IF q = VictimPath THEN RegularFile(2)
                     ELSE IF \E p \in S : q = temp_path(p)
                          THEN RegularFile(StaleInode(CHOOSE p \in S : q = temp_path(p)))
                     ELSE Absent]
        /\ data = <<c, VictimContent, StaleContent, StaleContent>>
        /\ pc = [p \in Procs |-> "idle"]
        /\ todo = <<<<TrimOp(m)>>, <<TrimOp(m)>>>>
        /\ loc = [p \in Procs |-> InitLoc]
        /\ pre = c
        /\ adv = 0
        /\ NoCatalog

NextStaleTemp == \E p \in Procs : TrimCall(p) \/ Trim(p)

SpecStaleTemp == InitStaleTemp /\ [][NextStaleTemp]_vars

\* Lines that count for the size of the file: events, and a long line that
\* is no event.
SizeLines == PlainLines \cup {<<"x", "x", "x", "x", "x", "x", "x", "x", "x">>}

\* One process records two launches, one after the other, on a ledger that
\* is a file, absent, or a symbolic link.
InitRecordSeq ==
    \E c \in ContentsAnyEnd(SizeLines, MaxLines),
       n1 \in {<<"a">>, <<"a", LF, "b">>}, n2 \in {<<"a">>, <<>>}, t \in Times :
        LET calls == <<RecordOp(n1, t), RecordOp(n2, 7)>>
        IN  \/ Start(RegularFile(1), c, calls, <<>>, 0)
            \/ c = <<>> /\ Start(Absent, c, calls, <<>>, 0)
            \/ c = <<>> /\ Start(SymLink(VictimPath), c, calls, <<>>, 0)

NextRecordSeq == \E p \in Procs : Record(p) \/ Trim(p)

SpecRecordSeq == InitRecordSeq /\ [][NextRecordSeq]_vars

\* discover_apps on every configuration and every set of descriptors.
InitDiscover ==
    /\ StartLedger(Absent, <<>>, <<>>, <<>>, 0)
    /\ \E f \in SeqsUpTo(Descriptors, MaxFound), c \in SeqsUpTo(CustomApps, MaxCustom),
          x \in ExcludeSets, v \in FavoriteSets :
          StartCatalog([exclude |-> x, favorites |-> v, custom |-> c], f)

NextDiscover == discover_apps

SpecDiscover == InitDiscover /\ [][NextDiscover]_vars

\* The catalog is built, then one app of it is launched, or spawn_direct is
\* called as its test calls it.
InitLaunch ==
    /\ \E c \in {<<>>} \cup Contents(PlainLines, 1), e \in {Absent, RegularFile(1)},
          t \in {<<LaunchOp(Terminal, 7, b)>> : b \in BOOLEAN}
               \cup {<<SpawnDirectOp(a, w)>> :
                       a \in {<<>>, <<<<"a">>>>}, w \in {None, Some(Terminal)}} :
          /\ (e = Absent => c = <<>>)
          /\ StartLedger(e, c, t, <<>>, 0)
    /\ \E f \in SeqsUpTo(Descriptors, 1), c \in SeqsUpTo(CustomApps, MaxCustom) :
          StartCatalog([exclude |-> {}, favorites |-> {}, custom |-> c], f)

NextLaunch ==
    \/ discover_apps
    \/ \E p \in Procs : LaunchApp(p) \/ SpawnDirectCall(p) \/ Record(p)

SpecLaunch == InitLaunch /\ [][NextLaunch]_vars

\* Every scenario above, with every step of the model.
Init ==
    \/ InitLoadTrim
    \/ InitRecord2
    \/ InitSymlink
    \/ InitTrim2
    \/ InitFault
    \/ InitTrimSeq
    \/ InitLoad
    \/ InitRoundTrip
    \/ InitRecordTrim
    \/ InitStaleTemp
    \/ InitRecordSeq
    \/ InitDiscover
    \/ InitLaunch

Next ==
    \/ SwapToSymlink
    \/ discover_apps
    \/ \E p \in Procs : LaunchApp(p) \/ SpawnDirectCall(p)
    \/ \E p \in Procs : Record(p) \/ Load(p) \/ TrimCall(p) \/ Trim(p) \/ TrimFault(p)

Spec == Init /\ [][Next]_vars

(***************************************************************************)
(* Claims                                                                  *)
(***************************************************************************)
\* Process p has made all its calls.
Finished(p) == pc[p] = "idle" /\ todo[p] = <<>>

(* What the ledger format says a file holds, stated without the parser. *)

RECURSIVE DecimalValue(_)
\* The number a string of digits denotes.
DecimalValue(d) ==
    IF Len(d) = 0 THEN 0
    ELSE 10 * DecimalValue(SubSeq(d, 1, Len(d) - 1)) + DigitVal(d[Len(d)])

\* The digits of a timestamp field: the field without one leading '+'.
DigitsOf(s) == IF Len(s) > 0 /\ s[1] = "+" THEN Tail(s) ELSE s

\* s is the text of an unsigned integer within range.
IsUnsigned(s) ==
    /\ Len(DigitsOf(s)) > 0
    /\ \A k \in 1..Len(DigitsOf(s)) : IsDigit(DigitsOf(s)[k])
    /\ DecimalValue(DigitsOf(s)) <= U64Max

\* The positions of the tabs of a line.
TabsOf(line) == {i \in 1..Len(line) : line[i] = TAB}

\* The position of the first tab of a line that has one.
FirstTab(line) == CHOOSE i \in TabsOf(line) : \A j \in TabsOf(line) : i <= j

\* A line that is an event: it has a tab, and what precedes its first tab is
\* an unsigned integer.
IsEventLine(line) ==
    TabsOf(line) # {} /\ IsUnsigned(SubSeq(line, 1, FirstTab(line) - 1))

\* The event such a line is.
EventOf(line) ==
    [ts |-> DecimalValue(DigitsOf(SubSeq(line, 1, FirstTab(line) - 1))),
     name |-> SubSeq(line, FirstTab(line) + 1, Len(line))]

\* The events of a file, in file order.
EventsIn(content) ==
    LET ev == SelectSeq(Lines(content), IsEventLine)
    IN  [i \in 1..Len(ev) |-> EventOf(ev[i])]

\* How many times e occurs in the sequence s.
Count(s, e) == Cardinality({i \in 1..Len(s) : s[i] = e})

Range(s) == {s[i] : i \in 1..Len(s)}

\* Every element of s occurs in t at least as often.
SubBag(s, t) == \A e \in Range(s) : Count(s, e) <= Count(t, e)

\* `kept` holds the most recent of `all`: whatever of `all` is missing from
\* it is no newer than anything in it.
MostRecentOf(kept, all) ==
    /\ SubBag(kept, all)
    /\ \A e \in Range(all) :
          Count(kept, e) < Count(all, e) => \A k \in Range(kept) : e.ts <= k.ts

\* The file consists of well-formed, newline-terminated event lines only.
OnlyEventLines(content) ==
    /\ \A i \in 1..Len(Lines(content)) : IsEventLine(Lines(content)[i])
    /\ (content # <<>> => content[Len(content)] = LF)

\* C1: with load_history in one process and trim_history in another, the
\* bytes load has read when it returns are the whole file as it was before
\* the compaction or the whole file the compaction put in its place.
C1_LoadSeesWholeFile ==
    (Finished(1) /\ loc[1].opened) =>
        \/ loc[1].buf = pre
        \/ /\ loc[2].trim = "renamed"
           /\ loc[1].buf = ContentAt(HistoryPath)

\* C1 witness: load is in the middle of reading the old file while the
\* compaction has already renamed its file over the path.
C1_Witness ==
    /\ pc[1] = "load_read"
    /\ loc[1].buf # <<>>
    /\ Len(loc[1].buf) < Len(pre)
    /\ loc[2].trim = "renamed"
    /\ Resolve(HistoryPath) # loc[1].fd

\* The line a record_launch call of process p writes.
RecordedLine(p) == Line(FormatU64(loc[p].ts), loc[p].name)

\* The lines of a file, as a set.
LineSet(content) == {Lines(content)[i] : i \in 1..Len(Lines(content))}

\* C2: once two concurrent record_launch calls have returned, every line of
\* the ledger is a line it held before or the whole line of one of the calls.
C2_LinesNeverInterleave ==
    AllDone =>
        LineSet(ContentAt(HistoryPath))
            \subseteq LineSet(pre) \cup {RecordedLine(p) : p \in Procs}

\* C3: the file a symbolic link at the ledger path points to is never
\* modified, whenever the link appears; and a record_launch whose check met
\* a link wrote nothing, failed, and started no compaction.
C3_NeverWritesThroughSymlink ==
    /\ dir[VictimPath] = RegularFile(2)
    /\ data[2] = VictimContent
    /\ \A p \in Procs :
          (loc[p].op = "record" /\ loc[p].sawLink) =>
              /\ loc[p].written = 0
              /\ loc[p].result = "err"
              /\ loc[p].trim = "none"
              /\ pc[p] = "idle"

\* C3 witness: the check passed, the link appeared before the open, and the
\* open refused it.
C3_Witness ==
    /\ Finished(1)
    /\ loc[1].op = "record"
    /\ ~loc[1].sawLink
    /\ loc[1].result = "err"
    /\ dir[HistoryPath].kind = "symlink"

\* C3 witness of the compaction's case: the link appeared after the
\* compaction's check and the rename replaced it.
C3_WitnessRename ==
    /\ Finished(1)
    /\ loc[1].trim = "renamed"
    /\ adv = 0
    /\ dir[HistoryPath].kind = "file"

\* No event of the file has a name that ends in a carriage return.
NoNameEndsInCR(content) ==
    \A i \in 1..Len(EventsIn(content)) :
        LET n == EventsIn(content)[i].name
        IN  Len(n) = 0 \/ n[Len(n)] # CR

\* What C4 says of the ledger two compactions leave.
ValidTrimmedHistory ==
    /\ \A p \in Procs : loc[p].trim \in {"renamed", "noop"}
    /\ Len(EventsIn(ContentAt(HistoryPath))) = Min(loc[1].max_lines, Len(EventsIn(pre)))
    /\ OnlyEventLines(ContentAt(HistoryPath))
    /\ MostRecentOf(EventsIn(ContentAt(HistoryPath)), EventsIn(pre))

\* C4 as stated: when two concurrent trim_history(max_lines) calls have
\* returned, both completed, and the ledger holds at most max_lines events,
\* all of them events of the ledger as it was before, and the most recent of
\* those.
C4_ConcurrentTrims == AllDone => ValidTrimmedHistory

\* C4 amended: the same, for a ledger none of whose event names ends in a
\* carriage return.
C4_ConcurrentTrimsNoCR == (AllDone /\ NoNameEndsInCR(pre)) => ValidTrimmedHistory

\* C4 witness: both compactions wrote a file and renamed it over the ledger,
\* the second over the first's.
C4_Witness ==
    /\ AllDone
    /\ NoNameEndsInCR(pre)
    /\ \A p \in Procs : loc[p].trim = "renamed"
    /\ Len(EventsIn(pre)) > loc[1].max_lines
    /\ loc[1].max_lines > 0

\* C5: a trim_history that failed, at whichever step, has left the ledger
\* with the content it had when the compaction began, and has returned to
\* its caller; a record_launch that called it has returned with its append
\* done.
C5_FailedTrimLeavesLedger ==
    \A p \in Procs :
        loc[p].trim \in TrimFailures =>
            /\ ContentAt(HistoryPath) = loc[p].trimPre
            /\ pc[p] = "idle"
            /\ (loc[p].op = "record" => loc[p].result = "ok")

\* C5 witness: a compaction started by record_launch failed while writing
\* its temporary file, which is still there, half written.
C5_Witness ==
    /\ Finished(1)
    /\ loc[1].op = "record"
    /\ loc[1].trim = "failed_write"
    /\ dir[temp_path(1)].kind = "file"
    /\ data[dir[temp_path(1)].ino] # <<>>
    /\ ContentAt(HistoryPath) # <<>>

\* The timestamps of a sequence of events never decrease.
Ascending(ev) == \A i \in 1..Len(ev) : \A j \in i..Len(ev) : ev[i].ts <= ev[j].ts

\* Among the events of `all` whose timestamp is the oldest kept one, the kept
\* ones are the first in file order.
CutOffByFileOrder(kept, all) ==
    kept # <<>> =>
        LET AtCut(e) == e.ts = kept[1].ts
        IN  SelectSeq(kept, AtCut)
              = SubSeq(SelectSeq(all, AtCut), 1, Len(SelectSeq(kept, AtCut)))

\* The first of the two compactions has returned.
FirstTrimReturned == pc[1] = "idle" /\ Len(todo[1]) = 1 /\ loc[1].op = "trim"

\* What C6 says of the ledger a compaction leaves.
KeepsMostRecent ==
    /\ loc[1].trim = "renamed"
    /\ Len(Lines(ContentAt(HistoryPath))) = loc[1].max_lines
    /\ OnlyEventLines(ContentAt(HistoryPath))
    /\ MostRecentOf(EventsIn(ContentAt(HistoryPath)), EventsIn(pre))
    /\ CutOffByFileOrder(EventsIn(ContentAt(HistoryPath)), EventsIn(pre))
    /\ Ascending(EventsIn(ContentAt(HistoryPath)))

\* C6 as stated: a trim_history(max_lines) on a ledger of more than
\* max_lines events succeeds and leaves exactly max_lines lines, all events:
\* the most recent of the ledger, equal timestamps at the cut-off taken in
\* file order, written oldest first.
C6_TrimKeepsMostRecent ==
    (FirstTrimReturned /\ Len(EventsIn(pre)) > loc[1].max_lines) => KeepsMostRecent

\* C6 amended: the same, for a ledger none of whose event names ends in a
\* carriage return.
C6_TrimKeepsMostRecentNoCR ==
    (/\ FirstTrimReturned
     /\ Len(EventsIn(pre)) > loc[1].max_lines
     /\ NoNameEndsInCR(pre)) => KeepsMostRecent

\* C6 witness: a compaction dropped a malformed line and an event older than
\* the ones it kept, and had to choose among equal timestamps.
C6_Witness ==
    /\ FirstTrimReturned
    /\ NoNameEndsInCR(pre)
    /\ loc[1].trim = "renamed"
    /\ loc[1].max_lines > 0
    /\ Len(Lines(pre)) > Len(EventsIn(pre))
    /\ \E i \in 1..Len(EventsIn(pre)) :
          /\ EventsIn(pre)[i].ts = EventsIn(ContentAt(HistoryPath))[1].ts
          /\ EventsIn(pre)[i] \notin Range(EventsIn(ContentAt(HistoryPath)))

\* The second of the two compactions is running or has returned.
InSecondTrim == (Len(todo[1]) = 1 /\ pc[1] # "idle") \/ todo[1] = <<>>

\* C7: a trim_history(max_lines) that began on a ledger of at most max_lines
\* events never changes the set of events in it, and neither does a second
\* trim_history(max_lines) right after a first.
C7_TrimIdempotent ==
    (/\ loc[1].op = "trim"
     /\ Len(EventsIn(loc[1].trimPre)) <= loc[1].max_lines \/ InSecondTrim) =>
        Range(EventsIn(ContentAt(HistoryPath))) = Range(EventsIn(loc[1].trimPre))

\* C7 witness: the first compaction rewrote the ledger and the second, on
\* the result, wrote nothing.
C7_Witness ==
    /\ Finished(1)
    /\ loc[1].trim = "noop"
    /\ ContentAt(HistoryPath) # pre
    /\ Len(EventsIn(pre)) > loc[1].max_lines

\* The names of a sequence of events.
NamesOf(ev) == {ev[i].name : i \in 1..Len(ev)}

\* h maps every name of the events to the largest timestamp it carries.
IsLatestMap(h, ev) ==
    /\ DOMAIN h = NamesOf(ev)
    /\ \A i \in 1..Len(ev) : ev[i].ts <= h[ev[i].name]
    /\ \A n \in DOMAIN h : \E i \in 1..Len(ev) : ev[i].name = n /\ ev[i].ts = h[n]

\* C8: load_history returns the map from every name that occurs in an event
\* line to the largest timestamp of that name's lines, and the empty map
\* when there is no ledger file.
C8_LoadKeepsMaximum ==
    Finished(1) =>
        IF loc[1].opened
        THEN IsLatestMap(loc[1].hist, EventsIn(pre))
        ELSE loc[1].hist = EmptyMap

\* C8 witness: the ledger held a name twice, the later line with the smaller
\* timestamp.
C8_Witness ==
    /\ Finished(1)
    /\ loc[1].opened
    /\ \E i \in 1..Len(EventsIn(pre)) : \E j \in (i + 1)..Len(EventsIn(pre)) :
          /\ EventsIn(pre)[i].name = EventsIn(pre)[j].name
          /\ EventsIn(pre)[i].ts > EventsIn(pre)[j].ts
          /\ loc[1].hist[EventsIn(pre)[i].name] = EventsIn(pre)[i].ts

\* C8 witness of the absent ledger.
C8_WitnessAbsent == Finished(1) /\ ~loc[1].opened /\ dir[HistoryPath].kind = "absent"

\* A line of exactly two tab-separated fields, the first an unsigned integer.
IsTwoFieldLine(line) ==
    Cardinality(TabsOf(line)) = 1 /\ IsUnsigned(SubSeq(line, 1, FirstTab(line) - 1))

\* C9 as stated: the lines load_history takes for events are the lines of
\* exactly two fields whose first is an unsigned integer.
C9_ExactlyTwoFields ==
    (Finished(1) /\ loc[1].opened) =>
        \A i \in 1..Len(Lines(loc[1].buf)) :
            (ParseLine(Lines(loc[1].buf)[i]) # <<>>) <=> IsTwoFieldLine(Lines(loc[1].buf)[i])

\* C9 amended: the lines taken for events are the lines that have a tab and
\* an unsigned integer before their FIRST tab, the name being all that
\* follows it, further tabs included; every other line is skipped, and the
\* map returned is the map of the file without the skipped lines.
C9_SplitAtFirstTab ==
    (Finished(1) /\ loc[1].opened) =>
        /\ \A i \in 1..Len(Lines(loc[1].buf)) :
              IF IsEventLine(Lines(loc[1].buf)[i])
              THEN ParseLine(Lines(loc[1].buf)[i]) = <<EventOf(Lines(loc[1].buf)[i])>>
              ELSE ParseLine(Lines(loc[1].buf)[i]) = <<>>
        /\ loc[1].hist = LoadFold(SelectSeq(Lines(loc[1].buf), IsEventLine), EmptyMap)
        /\ NamesOf(EventsIn(loc[1].buf)) = DOMAIN loc[1].hist

\* C9 witness: the ledger held a line of three fields, which is in the map
\* under the name that contains the second tab, and a line that was skipped.
C9_Witness ==
    /\ Finished(1)
    /\ loc[1].opened
    /\ \E i \in 1..Len(Lines(pre)) :
          /\ Cardinality(TabsOf(Lines(pre)[i])) = 2
          /\ IsEventLine(Lines(pre)[i])
          /\ EventOf(Lines(pre)[i]).name \in DOMAIN loc[1].hist
    /\ \E i \in 1..Len(Lines(pre)) : ~IsEventLine(Lines(pre)[i])

\* record_launch has returned with its append done, and the load_history
\* that followed it has returned.
RecordedThenLoaded ==
    Finished(1) /\ loc[1].op = "load" /\ loc[1].result = "ok"

\* The new event is in the map with its own timestamp.
MapsToNewEvent ==
    /\ loc[1].name \in DOMAIN loc[1].hist
    /\ loc[1].hist[loc[1].name] = loc[1].ts

\* C10 as stated: after a successful record_launch(name) and the load_history
\* right after it, name is in the map with the timestamp just recorded,
\* whatever the ledger held before and whatever the name.
C10_RoundTrip == RecordedThenLoaded => MapsToNewEvent

\* The name has no newline in it and no carriage return at its end.
NoLineBreak(name) ==
    /\ \A i \in 1..Len(name) : name[i] # LF
    /\ (Len(name) = 0 \/ name[Len(name)] # CR)

\* The file is empty or its last line is terminated.
EndsWithNewline(content) == content = <<>> \/ content[Len(content)] = LF

\* The events of the file whose timestamp is t or later.
NotOlderThan(content, t) ==
    {i \in 1..Len(EventsIn(content)) : EventsIn(content)[i].ts >= t}

\* C10 amended: for a name without a line break, on a ledger that is absent,
\* empty or ends in a newline, and unless record_launch's own compaction
\* rewrote a ledger that already held MAX_HISTORY_LINES or more events no
\* older than the new one, name is in the map with a timestamp no smaller
\* than the one just recorded, and with exactly that one when no event of
\* the prior ledger is newer.
C10_RoundTripAmended ==
    (/\ RecordedThenLoaded
     /\ NoLineBreak(loc[1].name)
     /\ EndsWithNewline(pre)
     /\ \/ loc[1].trim # "renamed"
        \/ Cardinality(NotOlderThan(pre, loc[1].ts)) < MAX_HISTORY_LINES) =>
        /\ loc[1].name \in DOMAIN loc[1].hist
        /\ loc[1].hist[loc[1].name] >= loc[1].ts
        /\ (NotOlderThan(pre, loc[1].ts + 1) = {} => MapsToNewEvent)

\* C10 witness: the ledger held an older event of the same name, the append
\* made record_launch compact it, and the map has the new timestamp.
C10_Witness ==
    /\ RecordedThenLoaded
    /\ NoLineBreak(loc[1].name)
    /\ EndsWithNewline(pre)
    /\ loc[1].trim = "renamed"
    /\ MapsToNewEvent
    /\ \E i \in 1..Len(EventsIn(pre)) :
          /\ EventsIn(pre)[i].name = loc[1].name
          /\ EventsIn(pre)[i].ts < loc[1].ts


(* The catalog and the launches. *)

\* The last command handed to the operating system.
LastSpawn == spawned[Len(spawned)]

\* launch_app has run and the spawn of its command succeeded.
SpawnSucceeded ==
    spawned # <<>> /\ LastSpawn.by = "launch_app" /\ LastSpawn.err = "none"

\* launch_app has run and the spawn of its command failed.
SpawnFailed ==
    spawned # <<>> /\ LastSpawn.by = "launch_app" /\ LastSpawn.err # "none"

\* C11: record_launch is entered only after a successful spawn and for the
\* name of the app launched; after a failed spawn launch_app has returned,
\* record_launch was not entered and the ledger is as it was; after a
\* successful one launch_app returns with one line for the app appended.
C11_RecordsOnlyAfterSpawn ==
    /\ loc[1].op = "record" => SpawnSucceeded /\ loc[1].name = LastSpawn.name
    /\ SpawnFailed =>
          /\ Finished(1)
          /\ loc[1].op = "none"
          /\ loc[1].written = 0
          /\ ContentAt(HistoryPath) = pre
    /\ (SpawnSucceeded /\ Finished(1)) =>
          /\ loc[1].result = "ok"
          /\ ContentAt(HistoryPath) =
                pre \o Line(FormatU64(loc[1].ts), LastSpawn.name) \o <<LF>>

\* C11 witness: an app was spawned, and launch_app has returned with its
\* line at the end of a ledger that held another line.
C11_Witness ==
    /\ SpawnSucceeded
    /\ Finished(1)
    /\ pre # <<>>
    /\ ContentAt(HistoryPath) =
          pre \o Line(FormatU64(loc[1].ts), LastSpawn.name) \o <<LF>>

\* A failed spawn after which launch_app has returned.
C11_WitnessFailed == SpawnFailed /\ Finished(1) /\ LastSpawn.attempt

\* C12: a spawn_direct with an empty argv, with or without a terminal, ends
\* in InvalidInput with no process creation attempted; no Direct app of the
\* catalog has an empty argv, and no launch_app ends in InvalidInput.
C12_EmptyArgvRejected ==
    /\ \A i \in 1..Len(spawned) :
          (spawned[i].launch.kind = "Direct" /\ spawned[i].launch.args = <<>>) =>
              /\ ~spawned[i].attempt
              /\ spawned[i].err = "InvalidInput"
              /\ spawned[i].cmd = <<>>
    /\ \A i \in 1..Len(apps) :
          apps[i].launch.kind = "Direct" => apps[i].launch.args # <<>>
    /\ \A i \in 1..Len(spawned) :
          spawned[i].by = "launch_app" =>
              spawned[i].attempt /\ spawned[i].err # "InvalidInput"

\* C12 witness: spawn_direct was called with an empty argv and a terminal,
\* and the catalog, built from a descriptor whose command is blank, is
\* empty.
C12_Witness ==
    /\ spawned # <<>>
    /\ LastSpawn.by = "spawn_direct"
    /\ LastSpawn.launch.args = <<>>
    /\ LastSpawn.terminal.some
    /\ LastSpawn.err = "InvalidInput"
    /\ Discovered
    /\ Len(found) = 1
    /\ found[1].name.some /\ found[1].exec = Some(<<" ">>)
    /\ apps = <<>>

\* A Direct app of the catalog was launched in a terminal.
C12_WitnessLaunch ==
    /\ spawned # <<>>
    /\ LastSpawn.by = "launch_app"
    /\ LastSpawn.launch.kind = "Direct"
    /\ LastSpawn.terminal.some

\* The descriptor an App was built from.
DescriptorOf(app) == found[app.origin.index]

\* The custom-app record an App was built from.
CustomOf(app) == config.custom[app.origin.index]

\* Descriptor k went through every test of the loop but the one on its
\* command.
Presentable(k) ==
    /\ found[k].parsed
    /\ ~found[k].no_display /\ ~found[k].hidden
    /\ found[k].name.some
    /\ found[k].name.v \notin config.exclude

\* The apps of the catalog built from descriptor k.
AppsOfDescriptor(k) ==
    {i \in 1..Len(apps) : ~apps[i].origin.custom /\ apps[i].origin.index = k}

\* The apps of the catalog built from custom record k.
AppsOfCustom(k) ==
    {i \in 1..Len(apps) : apps[i].origin.custom /\ apps[i].origin.index = k}

\* C13: an App from a custom record is Shell with the configured exec
\* string as it is; an App from a descriptor is Direct with the non-empty
\* argv of the descriptor's command; a descriptor whose command fails to
\* parse or parses to no token has no App, and one that parses to a token
\* and passes the other tests has one.
C13_StrategyByOrigin ==
    /\ \A i \in 1..Len(apps) :
          IF apps[i].origin.custom
          THEN /\ apps[i].launch.kind = "Shell"
               /\ apps[i].launch.exec = CustomOf(apps[i]).exec
          ELSE /\ apps[i].launch.kind = "Direct"
               /\ apps[i].launch.args # <<>>
               /\ apps[i].launch.args = parse_exec(DescriptorOf(apps[i])).args
    /\ Discovered =>
          \A k \in 1..Len(found) :
             IF ~parse_exec(found[k]).ok \/ parse_exec(found[k]).args = <<>>
             THEN AppsOfDescriptor(k) = {}
             ELSE Presentable(k) => Cardinality(AppsOfDescriptor(k)) = 1

\* C13 witness: the catalog holds a custom app whose exec string has a
\* field code and two blanks in a row, next to a Direct app, and a
\* descriptor whose command is a field code alone was left out.
C13_Witness ==
    /\ Discovered
    /\ \E i \in 1..Len(apps) :
          /\ apps[i].origin.custom
          /\ apps[i].launch = Shell(<<"a", " ", "%", "F", " ", " ", "b">>)
    /\ \E i \in 1..Len(apps) : apps[i].launch.kind = "Direct"
    /\ \E k \in 1..Len(found) :
          /\ Presentable(k)
          /\ found[k].exec = Some(<<"%", "F">>)
          /\ AppsOfDescriptor(k) = {}

\* The app's name is in the favorites of the configuration.
IsFavorite(app) == app.name \in config.favorites

\* The place of an App in the vector before the sort: descriptors in the
\* order found, then the custom apps in the order configured.
PushOrder(app) ==
    IF app.origin.custom THEN Len(found) + app.origin.index ELSE app.origin.index

\* C14: in the catalog returned no app that is not a favorite precedes a
\* favorite; two apps of the same group are in ascending order of
\* lower-cased name, and in the order they were pushed when their
\* lower-cased names are equal.
C14_FavoritesFirstThenByName ==
    Discovered =>
        \A i, j \in 1..Len(apps) :
            i < j =>
               /\ IsFavorite(apps[j]) => IsFavorite(apps[i])
               /\ (IsFavorite(apps[i]) = IsFavorite(apps[j])) =>
                     /\ cmp(to_lowercase(apps[i].name), to_lowercase(apps[j].name))
                           # "Greater"
                     /\ to_lowercase(apps[i].name) = to_lowercase(apps[j].name) =>
                           PushOrder(apps[i]) < PushOrder(apps[j])

\* C14 witness: the favorite B, pushed last, is first; a and A follow in
\* the order they were found although A sorts before a byte by byte.
C14_Witness ==
    /\ Discovered
    /\ Len(apps) = 3
    /\ apps[1].name = <<"B">> /\ IsFavorite(apps[1]) /\ PushOrder(apps[1]) = 3
    /\ apps[2].name = <<"a">> /\ ~IsFavorite(apps[2]) /\ PushOrder(apps[2]) = 1
    /\ apps[3].name = <<"A">> /\ ~IsFavorite(apps[3]) /\ PushOrder(apps[3]) = 2

\* C15 as stated: no App of the catalog has a name of the exclude set.
C15_NoExcludedName ==
    \A i \in 1..Len(apps) : apps[i].name \notin config.exclude

\* C15 amended: no App built from a descriptor has a name of the exclude
\* set, favorite or not; the custom apps are not tested.
C15_NoExcludedDescriptor ==
    \A i \in 1..Len(apps) :
        ~apps[i].origin.custom => apps[i].name \notin config.exclude

\* C15 witness: a descriptor that passes every other test has a name that
\* is both excluded and a favorite, and the catalog has no App from it.
C15_Witness ==
    /\ Discovered
    /\ \E k \in 1..Len(found) :
          /\ found[k].parsed /\ ~found[k].no_display /\ ~found[k].hidden
          /\ found[k].name.some
          /\ accepts_exec(parse_exec(found[k]))
          /\ found[k].name.v \in config.exclude \cap config.favorites
          /\ AppsOfDescriptor(k) = {}

\* C16: every custom record of the configuration has exactly one App in
\* the catalog returned, with the record's name and exec string.
C16_EveryCustomAppKept ==
    Discovered =>
        \A k \in 1..Len(config.custom) :
            /\ Cardinality(AppsOfCustom(k)) = 1
            /\ \A i \in AppsOfCustom(k) :
                  /\ apps[i].name = config.custom[k].name
                  /\ apps[i].exec = config.custom[k].exec

\* C16 witness: the catalog holds the custom app whose name is excluded and
\* the one whose exec string is empty.
C16_Witness ==
    /\ Discovered
    /\ \E k \in 1..Len(config.custom) :
          /\ config.custom[k].name \in config.exclude
          /\ Cardinality(AppsOfCustom(k)) = 1
    /\ \E i \in 1..Len(apps) : apps[i].origin.custom /\ apps[i].exec = <<>>

\* The letters of the desktop-entry field codes.
FieldCodeLetters ==
    {"f", "F", "u", "U", "d", "D", "n", "N", "i", "c", "k", "v", "m"}

RECURSIVE CleanedCommand(_)
\* The raw command with every field code taken out, %% turned into % and
\* everything else left as it is.
CleanedCommand(raw) ==
    IF raw = <<>> THEN <<>>
    ELSE IF Head(raw) = "%" /\ Len(raw) >= 2 /\ raw[2] \in FieldCodeLetters
         THEN CleanedCommand(Tail(Tail(raw)))
    ELSE IF Head(raw) = "%" /\ Len(raw) >= 2 /\ raw[2] = "%"
         THEN <<"%">> \o CleanedCommand(Tail(Tail(raw)))
    ELSE <<Head(raw)>> \o CleanedCommand(Tail(raw))

\* C17: the exec string of an App built from a descriptor is the
\* descriptor's raw command with the field codes removed, %% collapsed and
\* the rest kept as it is.
C17_ExecIsCleanedCommand ==
    \A i \in 1..Len(apps) :
        ~apps[i].origin.custom =>
            apps[i].exec = CleanedCommand(DescriptorOf(apps[i]).exec.v)

(* The ledger again. *)

\* The event (ts, name) is one of the events of the file.
HoldsEvent(content, ts, name) ==
    \E i \in 1..Len(EventsIn(content)) :
        EventsIn(content)[i] = [ts |-> ts, name |-> name]

\* C18: when record_launch has returned Ok and every call is over, the new
\* event is in the ledger, provided fewer events of the prior ledger than
\* any compaction keeps are as recent as it.
C18_NoRecordedEventLost ==
    (/\ AllDone
     /\ loc[1].op = "record" /\ loc[1].result = "ok"
     /\ loc[2].op = "trim"
     /\ Cardinality(NotOlderThan(pre, loc[1].ts))
           < Min(loc[2].max_lines, MAX_HISTORY_LINES)) =>
        HoldsEvent(ContentAt(HistoryPath), loc[1].ts, loc[1].name)

\* The file at the temporary name of p is the one that was there, with the
\* bytes it had.
StaleKept(p) ==
    /\ dir[temp_path(p)] = RegularFile(StaleInode(p))
    /\ data[StaleInode(p)] = StaleContent

\* C19: a file already at the temporary name of a compaction stays there
\* with its bytes, whatever step is taken; that compaction neither writes
\* nor renames, and the ledger is as it was when this holds of both
\* compactions; and two compactions never write through the same open file.
C19_ExclusiveCreate ==
    /\ [][\A p \in Procs : StaleKept(p) => StaleKept(p)']_vars
    /\ [](\A p \in Procs :
            StaleKept(p) =>
                /\ loc[p].trim \notin {"renamed", "failed_write", "failed_rename"}
                /\ pc[p] \notin {"trim_write", "trim_rename"})
    /\ []((\A p \in Procs : StaleKept(p)) =>
            dir[HistoryPath] = RegularFile(1) /\ data[1] = pre)
    /\ [](\A p, q \in Procs :
            (p # q /\ pc[p] = "trim_write" /\ pc[q] = "trim_write") =>
                loc[p].fd # loc[q].fd)

\* C19 witness: a compaction with events to drop has ended at the creation
\* of its temporary file, the file that was there is untouched, and the
\* other compaction has replaced the ledger.
C19_Witness ==
    /\ AllDone
    /\ StaleKept(1)
    /\ loc[1].trim = "failed_create"
    /\ loc[2].trim = "renamed"

\* C20: once trim_history has returned after creating its temporary file,
\* no file is at the temporary name.
C20_NoTemporaryFileLeft ==
    \A p \in Procs :
        (pc[p] = "idle" /\ loc[p].trim \in {"renamed", "failed_write", "failed_rename"}) =>
            dir[temp_path(p)].kind = "absent"

\* record_launch of process 1 has returned.
Returned == pc[1] = "idle" /\ loc[1].op = "record"

\* record_launch of process 1 has called trim_history.
CalledTrim ==
    /\ loc[1].op = "record"
    /\ \/ loc[1].trim # "none"
       \/ pc[1] \in {"trim_check", "trim_open", "trim_read", "trim_create",
                     "trim_write", "trim_rename"}

\* The size above which a ledger is compacted.
SizeLimit == BYTES_PER_LINE * MAX_HISTORY_LINES

\* C21: record_launch calls trim_history only after an append that
\* succeeded and left the file above the size limit, and always then; once
\* a record_launch whose append succeeded has returned, the ledger is within
\* the size limit or holds at most MAX_HISTORY_LINES events.
C21_CompactsAboveSizeLimit ==
    /\ CalledTrim =>
          loc[1].result = "ok" /\ Len(loc[1].trimPre) > SizeLimit
    /\ (Returned /\ loc[1].result = "ok" /\ ~CalledTrim) =>
          Len(ContentAt(HistoryPath)) <= SizeLimit
    /\ (Returned /\ loc[1].result # "ok") => ~CalledTrim
    /\ (Returned /\ loc[1].result = "ok") =>
          \/ Len(ContentAt(HistoryPath)) <= SizeLimit
          \/ Len(EventsIn(ContentAt(HistoryPath))) <= MAX_HISTORY_LINES

\* C21 witness: the second record_launch has returned after a compaction
\* that cut the ledger down to MAX_HISTORY_LINES events.
C21_Witness ==
    /\ Returned
    /\ Finished(1)
    /\ loc[1].result = "ok"
    /\ loc[1].trim = "renamed"
    /\ Len(EventsIn(loc[1].trimPre)) > MAX_HISTORY_LINES
    /\ Len(EventsIn(ContentAt(HistoryPath))) = MAX_HISTORY_LINES

\* A record_launch has returned with the file exactly at the size limit and
\* no compaction.
C21_WitnessAtLimit ==
    /\ Returned
    /\ loc[1].result = "ok"
    /\ ~CalledTrim
    /\ Len(ContentAt(HistoryPath)) = SizeLimit

\* A record_launch has returned with a file above the size limit that a
\* compaction found to hold few events and left alone.
C21_WitnessLongLines ==
    /\ Returned
    /\ loc[1].trim = "noop"
    /\ Len(ContentAt(HistoryPath)) > SizeLimit

\* The command an app resolves to: its argv, or a shell run on its exec
\* string.
ResolvedCommand(launch) ==
    IF launch.kind = "Direct" THEN launch.args
    ELSE <<<<"s", "h">>, <<"-", "c">>, launch.exec>>

\* C22: every command launch_app hands to the operating system is the
\* resolved command of the app, preceded by the terminal and -e exactly when
\* the terminal flag of the app is set; the command of a Direct app without
\* the flag starts with the first word of its argv.
C22_TerminalWrapsByFlag ==
    \A i \in 1..Len(spawned) :
        spawned[i].by = "launch_app" =>
            /\ spawned[i].attempt
            /\ spawned[i].cmd =
                  IF spawned[i].flag
                  THEN <<Terminal, <<"-", "e">>>> \o ResolvedCommand(spawned[i].launch)
                  ELSE ResolvedCommand(spawned[i].launch)
            /\ (spawned[i].launch.kind = "Direct" /\ ~spawned[i].flag) =>
                  spawned[i].cmd[1] = spawned[i].launch.args[1]

\* C22 witness: the app of a descriptor with Terminal=true and a field code
\* in its command was launched as the terminal, -e and the two words of its
\* argv.
C22_Witness ==
    /\ spawned # <<>>
    /\ LastSpawn.by = "launch_app"
    /\ LastSpawn.flag
    /\ LastSpawn.launch = Direct(<<<<"a">>, <<"b">>>>)
    /\ LastSpawn.cmd = <<Terminal, <<"-", "e">>, <<"a">>, <<"b">>>>

\* A custom app was launched through the shell, without a terminal.
C22_WitnessShell ==
    /\ spawned # <<>>
    /\ LastSpawn.by = "launch_app"
    /\ ~LastSpawn.flag
    /\ LastSpawn.cmd =
          <<<<"s", "h">>, <<"-", "c">>, <<"a", " ", "%", "F", " ", " ", "b">>>>

\* A custom app on which the caller set the terminal flag was launched as
\* the terminal, -e and the shell.
C22_WitnessShellInTerminal ==
    /\ spawned # <<>>
    /\ LastSpawn.by = "launch_app"
    /\ LastSpawn.flag
    /\ LastSpawn.launch.kind = "Shell"
    /\ LastSpawn.cmd[1] = Terminal
    /\ LastSpawn.cmd[3] = <<"s", "h">>

====
